---- MODULE Spec2Model ----
(***************************************************************************)
(* Model of the batch submitter of apex_submitter_v2.py: main, hotkey      *)
(* discovery, BatchSubmitter.submit_single and BatchSubmitter.batch_submit *)
(* with the asyncio tasks of one gather call as separate steps.            *)
(* print_summary, generate_header, create_message_body and                 *)
(* find_all_hotkeys are also followed on their own, and so are             *)
(* CommandBot.run_command and the hotkey rotation mode of apex_sumitter.py.*)
(***************************************************************************)
EXTENDS Integers, Sequences, FiniteSets, TLC

\* ---------------------------------------------------------------- bounds
MaxHotkeys == 3      \* number of hotkey files in the wallet directory
MaxRepeat == 2       \* largest --repeat
MaxWorkers == 2      \* largest --max-workers
MaxFaults == 1       \* things that go wrong in one run: files that are not plain
                     \* valid key files, plus submissions that meet a transient fault
MaxOutcomes == 3     \* longest outcome list handed to print_summary on its own
MaxDuration == 2     \* longest duration of a submission in such a list
MaxSign == 3         \* signing operations followed on their own
MaxClock == 2        \* last millisecond of the clock while they are followed
MaxBodies == 2       \* requests serialized one after the other
MaxFiles == 5        \* files of a hotkeys directory scanned on its own
MaxRetries == 2      \* largest max_retries of a CommandBot
MaxCalls == 2        \* run_command calls on one CommandBot
MaxRotHotkeys == 2   \* hotkeys of a rotation
MaxRepetitions == 1  \* largest number of repetitions per hotkey in a rotation

\* ------------------------------------------------------- small helpers
Min(a, b) == IF a < b THEN a ELSE b

RECURSIVE SeqsUpTo(_, _)
SeqsUpTo(S, n) ==
    IF n = 0 THEN {<<>>}
    ELSE LET shorter == SeqsUpTo(S, n - 1)
         IN  shorter \cup {Append(s, x) : s \in {t \in shorter : Len(t) = n - 1}, x \in S}

\* ------------------------------------------------------ hotkey files
\* What a file of a hotkeys directory can hold.
\*   valid      JSON object with ss58Address (string) and privateKey
\*   rejected   as valid, of a hotkey the service answers with an error every time
\*   nokey      JSON object with ss58Address (string), no privateKey
\*   numaddr    JSON object whose ss58Address is a non-zero number, with privateKey
\*   noaddr     JSON object without ss58Address
\*   nonobject  JSON, but not an object (a list, a number)
\*   unparsable not JSON
\*   pub        file name ends in "pub" or ".txt", content JSON
\*   pub_unparsable  file name ends in "pub" or ".txt", content not JSON
FileKinds == {"valid", "rejected", "nokey", "numaddr", "noaddr", "nonobject", "unparsable",
              "pub", "pub_unparsable"}

\* The directories of a run: the three kinds find_all_hotkeys skips differ
\* only inside the scan, a run takes its skipped files from one of them.
RunFileKinds == {"valid", "rejected", "nokey", "numaddr", "unparsable"}

BadFiles(fs) == Cardinality({k \in DOMAIN fs : fs[k] # "valid"})

FileLists == {fs \in SeqsUpTo(RunFileKinds, MaxHotkeys) : BadFiles(fs) <= MaxFaults}

\* hotkey_file.name.endswith('.txt') or hotkey_file.name.endswith('pub')
NameSkipped(kind) == kind \in {"pub", "pub_unparsable"}

\* The try block raises: json.load on a text that is not JSON, key_data.get on
\* a JSON value that is not an object.
ReadRaises(kind) == kind \in {"unparsable", "nonobject", "pub_unparsable"}

\* key_data.get("ss58Address") of file k: the address is written as the
\* index of the file, 0 stands for a value that is missing or empty.
ss58Address(fs, k) == IF fs[k] = "noaddr" THEN 0 ELSE k

\* find_all_hotkeys: one record per file that is not skipped, in scan order.
\* hotkey_path is the index of the file; ss58_address is the address read from
\* it, addr_is_str tells whether that JSON value is a string.
RECURSIVE ScanFiles(_, _)
ScanFiles(fs, k) ==
    IF k > Len(fs) THEN <<>>
    ELSE IF NameSkipped(fs[k]) THEN ScanFiles(fs, k + 1)
    ELSE IF ReadRaises(fs[k]) THEN ScanFiles(fs, k + 1)
    ELSE IF ss58Address(fs, k) = 0 THEN ScanFiles(fs, k + 1)
    ELSE <<[hotkey_path |-> k, ss58_address |-> ss58Address(fs, k),
            addr_is_str |-> fs[k] # "numaddr"]>>
         \o ScanFiles(fs, k + 1)

\* The "[WARN] Failed to read" lines of the scan, each written as the index of
\* its file: one per file that was opened and could not be read.
RECURSIVE ScanWarnings(_, _)
ScanWarnings(fs, k) ==
    IF k > Len(fs) THEN <<>>
    ELSE IF ~NameSkipped(fs[k]) /\ ReadRaises(fs[k]) THEN <<k>> \o ScanWarnings(fs, k + 1)
    ELSE ScanWarnings(fs, k + 1)

\* Mutant of find_all_hotkeys: a file that cannot be read ends the scan with
\* nothing.
find_all_hotkeys_fatal(fs) ==
    IF \E k \in DOMAIN fs : ~NameSkipped(fs[k]) /\ ReadRaises(fs[k]) THEN <<>>
    ELSE ScanFiles(fs, 1)

find_all_hotkeys(fs) == ScanFiles(fs, 1)

\* Mutant of load_keypair: a key file without privateKey yields a keypair too.
load_keypair_lenient(fs, path) == TRUE

\* load_keypair: TRUE when the key file yields a keypair, FALSE when it raises.
load_keypair(fs, path) == fs[path] # "nokey"

NoKeyText == "No private key found in key file"

\* ------------------------------------------------------ transport
\* What httpx gives back for one POST: a response (status_code, text, whether
\* the text parses as JSON) or an exception (exc # ""), and the time the
\* submission took until then (took).
OkResponse == [status_code |-> 200, text |-> "{ok}", is_json |-> TRUE, exc |-> "", took |-> 1]

\* No POST has come back.
NoTransport == [status_code |-> 0, text |-> "", is_json |-> FALSE, exc |-> "", took |-> 0]

\* The answer to a hotkey the service rejects.
Rejected == [status_code |-> 500, text |-> "boom", is_json |-> FALSE, exc |-> "", took |-> 1]

\* The answers any submission can meet: acceptance, or a transient fault (a
\* 200 whose body is not JSON, another 2xx status, a transport exception).
Transport ==
    { OkResponse,
      [status_code |-> 200, text |-> "<html>", is_json |-> FALSE, exc |-> "", took |-> 1],
      [status_code |-> 201, text |-> "{queued}", is_json |-> TRUE, exc |-> "", took |-> 1],
      [status_code |-> 0, text |-> "", is_json |-> FALSE, exc |-> "ReadTimeout", took |-> 2] }

\* The answers the service can give to the hotkey of key file kind.
Answers(kind) == IF kind = "rejected" THEN {Rejected} ELSE Transport

\* ------------------------------------------------------ signing
\* The request bodies and the keypairs that are signed with on their own.
Bodies == {"body_a", "body_b"}
Keypairs == {1, 2}

\* sha256(body).hexdigest(): one digest per body.
Digest(body) == <<"sha256", body>>

\* The message of generate_header: digest, '.', timestamp, '.', and nothing
\* after the last dot.
Message(body, timestamp) == <<Digest(body), timestamp, "">>

\* Mutant of generate_header: the clock is read a second time for the header.
generate_header_second_clock(hotkey, body, now, uuid) ==
    [timestamp |-> now + 1,
     signed_by |-> hotkey,
     signed |-> Message(body, now),
     signature |-> <<"sign", hotkey, Message(body, now)>>,
     request_id |-> uuid]

\* Mutant of generate_header: the request id is derived from the signer.
generate_header_signer_id(hotkey, body, now, uuid) ==
    [timestamp |-> now,
     signed_by |-> hotkey,
     signed |-> Message(body, now),
     signature |-> <<"sign", hotkey, Message(body, now)>>,
     request_id |-> hotkey]

\* generate_header: the headers built for body by hotkey when time.time() reads
\* now (in ms, rounded) and uuid.uuid4() gives uuid. signed is the message that
\* is signed, kept next to the signature made of it.
generate_header(hotkey, body, now, uuid) ==
    [timestamp |-> now,
     signed_by |-> hotkey,
     signed |-> Message(body, now),
     signature |-> <<"sign", hotkey, Message(body, now)>>,
     request_id |-> uuid]

\* ------------------------------------------------------ submit_single
\* The result dict built at the top of submit_single.
InitialResult(hk) ==
    [success |-> FALSE, hotkey |-> hk.ss58_address, has_short |-> TRUE,
     response |-> "None", error |-> "None", repeat_num |-> 0, born |-> 0,
     duration |-> 0]

\* ss58_address[:8] outside the try block raises for a value that cannot be sliced.
RaisesBeforeTry(hk) == ~hk.addr_is_str

\* Mutant of HttpError: the body of the response is left out.
HttpErrorStatusOnly(t) == "HTTP " \o ToString(t.status_code)

\* f"HTTP {response.status_code}: {response.text}"
HttpError(t) == "HTTP " \o ToString(t.status_code) \o ": " \o t.text

\* Mutant of AfterPost: every 2xx status counts as success.
AfterPostAny2xx(hk, t) ==
    LET r0 == [InitialResult(hk) EXCEPT !.duration = t.took] IN
    IF t.exc # "" THEN [r0 EXCEPT !.error = t.exc]
    ELSE IF t.status_code \in 200..299
         THEN IF t.is_json
              THEN [r0 EXCEPT !.success = TRUE, !.response = t.text]
              ELSE [r0 EXCEPT !.success = TRUE, !.error = "JSONDecodeError"]
         ELSE [r0 EXCEPT !.error = HttpError(t)]

\* The body of the try block once the POST has come back with t, and the
\* except clause around it.
AfterPost(hk, t) ==
    LET r0 == [InitialResult(hk) EXCEPT !.duration = t.took] IN
    IF t.exc # "" THEN [r0 EXCEPT !.error = t.exc]
    ELSE IF t.status_code = 200
         THEN IF t.is_json
              THEN [r0 EXCEPT !.success = TRUE, !.response = t.text]
              ELSE [r0 EXCEPT !.success = TRUE, !.error = "JSONDecodeError"]
         ELSE [r0 EXCEPT !.error = HttpError(t)]

\* load_keypair raised: the except clause records the text.
KeyFailure(hk) == [InitialResult(hk) EXCEPT !.error = NoKeyText]


\* ------------------------------------------------------ batch_submit helpers
\* Mutant of Batch: the slice runs one element too far.
BatchOverrun(hks, i, mw) == SubSeq(hks, i + 1, Min(i + mw + 1, Len(hks)))

\* hotkeys[i:i + max_workers]
Batch(hks, i, mw) == SubSeq(hks, i + 1, Min(i + mw, Len(hks)))

\* i is produced by range(0, n, mw); mw = 0 makes range() raise ValueError.
RangeRaises(mw) == mw = 0

InRange(i, n, mw) == mw > 0 /\ i < n

\* A task of the gather call: created, in flight (awaiting the POST) or done.
\* A done task holds either the dict returned by submit_single (out) or the
\* exception that ended it (raised # ""). pos is the position of its hotkey in
\* the list, born the repeat in which it was started.
NoResult == [success |-> FALSE, hotkey |-> 0, has_short |-> FALSE,
             response |-> "None", error |-> "None", repeat_num |-> 0, born |-> 0,
     duration |-> 0]

NewTask(pos) == [st |-> "created", out |-> NoResult, raised |-> "", born |-> 0, pos |-> pos]

\* Mutant of Completed: a submission that failed is started again.
CompletedWithRetry(tk, hk, t) ==
    IF AfterPost(hk, t).success
    THEN [tk EXCEPT !.st = "done", !.out = AfterPost(hk, t)]
    ELSE [tk EXCEPT !.st = "created"]

\* Task tk of hotkey hk once its POST has come back with t.
Completed(tk, hk, t) == [tk EXCEPT !.st = "done", !.out = AfterPost(hk, t)]

\* Mutant of GatherReady: the wait ends with the first task that is done.
GatherFirstCompleted(ts) == \E k \in DOMAIN ts : ts[k].st = "done"

\* asyncio.gather(*tasks, return_exceptions=True) returns once every task is done.
GatherReady(ts) == \A k \in DOMAIN ts : ts[k].st = "done"

\* The dict that replaces an exception object returned by gather.
ExceptionResult(hk, text) ==
    [success |-> FALSE, hotkey |-> hk.ss58_address, has_short |-> FALSE,
     response |-> "None", error |-> text, repeat_num |-> 0, born |-> 0,
     duration |-> 0]

\* Mutant of Stamped: only a successful result is stamped.
StampedOnSuccess(hk, t, rn) ==
    LET r == IF t.raised # "" THEN ExceptionResult(hk, t.raised) ELSE t.out
    IN  [r EXCEPT !.repeat_num = IF r.success THEN rn ELSE 0, !.born = t.born]

\* One element of batch_results after the isinstance test and the stamping
\* (born, the repeat in which the task was started, is kept for the record).
Stamped(hk, t, rn) ==
    LET r == IF t.raised # "" THEN ExceptionResult(hk, t.raised) ELSE t.out
    IN  [r EXCEPT !.repeat_num = rn, !.born = t.born]

\* Printing an element reads result['hotkey_short'], result['wallet_name'] and
\* result['hotkey_name'] in both branches: KeyError when the dict lacks them.
PrintRaises(r) == ~r.has_short

\* The loop over batch_results: elements are appended in order until one
\* cannot be printed. Returns the grown results list and whether it raised.
\* Mutant of ProcessFrom: the elements are taken from the last to the first.
RECURSIVE ProcessFromBackwards(_, _, _, _, _)
ProcessFromBackwards(batch, ts, rn, k, acc) ==
    IF k > Len(ts) THEN [results |-> acc, raised |-> FALSE]
    ELSE LET r == Stamped(batch[Len(ts) + 1 - k], ts[Len(ts) + 1 - k], rn) IN
         IF PrintRaises(r) THEN [results |-> Append(acc, r), raised |-> TRUE]
         ELSE ProcessFromBackwards(batch, ts, rn, k + 1, Append(acc, r))

RECURSIVE ProcessFrom(_, _, _, _, _)
ProcessFrom(batch, ts, rn, k, acc) ==
    IF k > Len(ts) THEN [results |-> acc, raised |-> FALSE]
    ELSE LET r == Stamped(batch[k], ts[k], rn) IN
         IF PrintRaises(r) THEN [results |-> Append(acc, r), raised |-> TRUE]
         ELSE ProcessFrom(batch, ts, rn, k + 1, Append(acc, r))

\* Mutant of ProcessResults: a batch with a failed task is dropped as a whole.
ProcessResultsAllOrNothing(batch, ts, rn, acc) ==
    IF \E k \in DOMAIN ts : ts[k].raised # "" \/ ~ts[k].out.success
    THEN [results |-> acc, raised |-> FALSE]
    ELSE ProcessFrom(batch, ts, rn, 1, acc)

ProcessResults(batch, ts, rn, acc) == ProcessFrom(batch, ts, rn, 1, acc)

\* A "[WAIT]" line: the pause of kind ("batch" or "repeat") started in repeat
\* rn after its batch number g.
Wait(kind, rn, g) == [kind |-> kind, repeat_num |-> rn, batch_num |-> g]

\* Mutant of PauseAfterBatch: the last batch of a repeat is followed by a pause too.
PauseAfterEveryBatch(i, mw, n, delay) == delay > 0

\* if i + max_workers < len(hotkeys) and delay_between_batches > 0
PauseAfterBatch(i, mw, n, delay) == i + mw < n /\ delay > 0

\* Mutant of PauseAfterRepeat: the last repeat is followed by a pause too.
PauseAfterEveryRepeat(rn, repeat, delay) == rn <= repeat /\ delay > 0

\* if repeat_num < repeat and delay_between_repeats > 0
PauseAfterRepeat(rn, repeat, delay) == rn < repeat /\ delay > 0

\* Mutant of Extend: the results of a repeat are put in front of the list.
ExtendFront(all, rs) == rs \o all

\* all_results.extend(results)
Extend(all, rs) == all \o rs

\* all(r["success"] for r in results)
AllSuccess(rs) == \A k \in DOMAIN rs : rs[k].success

\* Mutant of ExitCode: one success is enough for 0.
ExitCodeAnySuccess(rs) == IF \E k \in DOMAIN rs : rs[k].success THEN 0 ELSE 1

\* return 0 if all(...) else 1
ExitCode(rs) == IF AllSuccess(rs) THEN 0 ELSE 1

\* ------------------------------------------------------ print_summary
\* Mutant of Successful: an outcome counts when it carries a response.
SuccessfulByResponse(rs) == Len(SelectSeq(rs, LAMBDA r : r.response # "None"))

\* sum(1 for r in results if r["success"])
Successful(rs) == Len(SelectSeq(rs, LAMBDA r : r.success))

\* failed = total - successful
Failed(rs) == Len(rs) - Successful(rs)

\* set(r.get("repeat_num") for r in results if "repeat_num" in r); a dict
\* without the key is a record whose repeat_num is 0.
Repeats(rs) == {rs[k].repeat_num : k \in {j \in DOMAIN rs : rs[j].repeat_num # 0}}

\* sorted(S) for a set of integers.
RECURSIVE Sorted(_)
Sorted(S) ==
    IF S = {} THEN <<>>
    ELSE LET m == CHOOSE x \in S : \A y \in S : x <= y
         IN  <<m>> \o Sorted(S \ {m})

\* The values of S in the order in which they first occur in rs.
RECURSIVE FirstOccurrences(_, _)
FirstOccurrences(rs, seen) ==
    IF rs = <<>> THEN <<>>
    ELSE IF Head(rs).repeat_num = 0 \/ Head(rs).repeat_num \in seen
         THEN FirstOccurrences(Tail(rs), seen)
         ELSE <<Head(rs).repeat_num>>
              \o FirstOccurrences(Tail(rs), seen \cup {Head(rs).repeat_num})

\* One "Repeat n: s/t successful" line.
RepeatLine(rs, rn) ==
    LET repeat_results == SelectSeq(rs, LAMBDA r : r.repeat_num = rn)
    IN  [repeat_num |-> rn, success |-> Successful(repeat_results),
         total |-> Len(repeat_results)]

\* Mutant of Breakdown: the set of repeats is walked without sorting it.
BreakdownUnsorted(rs) ==
    IF Cardinality(Repeats(rs)) > 1
    THEN LET order == FirstOccurrences(rs, {})
         IN  [k \in 1..Len(order) |-> RepeatLine(rs, order[k])]
    ELSE <<>>

\* Lines 344-350: the lines of the per-repeat breakdown, printed only when
\* more than one repeat number occurs.
Breakdown(rs) ==
    IF Cardinality(Repeats(rs)) > 1
    THEN LET order == Sorted(Repeats(rs))
         IN  [k \in 1..Len(order) |-> RepeatLine(rs, order[k])]
    ELSE <<>>

\* sum(r["duration"] for r in results if r["success"])
RECURSIVE SumDuration(_)
SumDuration(rs) ==
    IF rs = <<>> THEN 0
    ELSE (IF Head(rs).success THEN Head(rs).duration ELSE 0) + SumDuration(Tail(rs))

RECURSIVE SumAllDuration(_)
SumAllDuration(rs) ==
    IF rs = <<>> THEN 0 ELSE Head(rs).duration + SumAllDuration(Tail(rs))

\* Mutant of Average: the mean is taken over all the outcomes.
AverageOverAll(rs) ==
    IF Len(rs) > 0
    THEN [reported |-> TRUE, sum |-> SumAllDuration(rs), n |-> Len(rs)]
    ELSE [reported |-> FALSE, sum |-> 0, n |-> 0]

\* Lines 352-354: the average is the quotient sum / n, kept as its two terms;
\* nothing is divided and nothing is printed without a success.
Average(rs) ==
    IF Successful(rs) > 0
    THEN [reported |-> TRUE, sum |-> SumDuration(rs), n |-> Successful(rs)]
    ELSE [reported |-> FALSE, sum |-> 0, n |-> 0]

\* Lines 361-364: one line per outcome that is not a success, in list order;
\* short is 0 where the dict has no hotkey_short ('unknown').
FailedLine(r) ==
    [short |-> IF r.has_short THEN r.hotkey ELSE 0, repeat_num |-> r.repeat_num,
     error |-> r.error]

RECURSIVE FailedLines(_)
FailedLines(rs) ==
    IF rs = <<>> THEN <<>>
    ELSE (IF Head(rs).success THEN <<>> ELSE <<FailedLine(Head(rs))>>)
         \o FailedLines(Tail(rs))

\* What print_summary writes for the list rs.
print_summary(rs) ==
    [printed |-> TRUE,
     total |-> Len(rs),
     successful |-> Successful(rs),
     failed |-> Failed(rs),
     breakdown |-> Breakdown(rs),
     avg |-> Average(rs),
     failed_listing |-> Failed(rs) > 0,
     failed_lines |-> IF Failed(rs) > 0 THEN FailedLines(rs) ELSE <<>>]

\* Nothing has been written.
NoSummary ==
    [printed |-> FALSE, total |-> 0, successful |-> 0, failed |-> 0,
     breakdown |-> <<>>, avg |-> [reported |-> FALSE, sum |-> 0, n |-> 0],
     failed_listing |-> FALSE, failed_lines |-> <<>>]

\* ------------------------------------------------------ create_message_body
\* The keys of the request submit_single builds, in lexicographic order.
KeyOrder == <<"competition_id", "raw_code", "round_number">>

Rank(key) == CHOOSE k \in DOMAIN KeyOrder : KeyOrder[k] = key

\* A request is the list of its items in insertion order; an item is a key, the
\* kind of its value ("int" or "str") and the value written out as text.
\* json.dumps writes an int as a JSON number and a str as a quoted JSON string.
JsonValue(item) == [quoted |-> item.kind # "int", text |-> item.text]

\* Mutant of create_message_body: the keys are written in insertion order.
create_message_body_unsorted(data) ==
    [k \in DOMAIN data |-> [key |-> data[k].key, value |-> JsonValue(data[k])]]

\* json.dumps(data, default=str, sort_keys=True): the members of the JSON
\* object, in the order in which they are written.
create_message_body(data) ==
    LET order == Sorted({Rank(data[j].key) : j \in DOMAIN data})
        item(k) == data[CHOOSE j \in DOMAIN data : Rank(data[j].key) = order[k]]
    IN  [k \in DOMAIN data |-> [key |-> item(k).key, value |-> JsonValue(item(k))]]

\* ------------------------------------------------------ CommandBot.run_command
\* The commands a bot is given, and what one execution of a command can do:
\* end with exit code 0, end with another exit code, or fail to start
\* (subprocess.run raises).
Commands == {"link", "submit"}
Outcomes == {"ok", "fail", "exc"}

\* str(e) of the exception subprocess.run raises for cmd.
ExcText(cmd) == "cannot run " \o cmd

\* The element appended to self.attempts for attempt number attempt of cmd
\* with outcome o (lines 109-116 and 140-147). The outputs name the command.
AttemptRecord(cmd, attempt, o) ==
    [attempt |-> attempt,
     command |-> cmd,
     exit_code |-> IF o = "ok" THEN 0 ELSE IF o = "fail" THEN 1 ELSE -1,
     success |-> o = "ok",
     stdout |-> IF o = "ok" THEN "done " \o cmd ELSE "",
     stderr |-> IF o = "ok" THEN "" ELSE IF o = "fail" THEN "failed " \o cmd ELSE ExcText(cmd)]

\* The tuple (exit_code, stdout, stderr) of an element of self.attempts.
Triple(rec) == [exit_code |-> rec.exit_code, stdout |-> rec.stdout, stderr |-> rec.stderr]

NoTriple == [exit_code |-> -2, stdout |-> "", stderr |-> ""]

\* How a call of run_command ends: with a returned tuple or with an exception
\* (raised # ""), after executed attempts and the sleeps listed by the number
\* of the attempt they follow; attempts is self.attempts afterwards.
Ended(log, ret, raised, executed, sleeps) ==
    [attempts |-> log, ret |-> ret, raised |-> raised, executed |-> executed,
     sleeps |-> sleeps]

\* Lines 157-158: self.attempts[-1] after the loop.
LastAttempt(log, executed, sleeps) ==
    IF log = <<>> THEN Ended(log, NoTriple, "IndexError", executed, sleeps)
    ELSE Ended(log, Triple(log[Len(log)]), "", executed, sleeps)

\* The loop of run_command from attempt number attempt on (lines 97-158).
RECURSIVE RunFrom(_, _, _, _, _, _, _)
RunFrom(max_retries, stop_on_success, cmd, outs, attempt, log, sleeps) ==
    IF attempt > max_retries THEN LastAttempt(log, attempt - 1, sleeps)
    ELSE LET rec == AttemptRecord(cmd, attempt, outs[attempt])
             log2 == Append(log, rec)
         IN  IF outs[attempt] = "exc"
             THEN IF attempt < max_retries
                  THEN RunFrom(max_retries, stop_on_success, cmd, outs, attempt + 1, log2,
                               Append(sleeps, attempt))
                  ELSE Ended(log2, [exit_code |-> -1, stdout |-> "", stderr |-> ExcText(cmd)],
                             "", attempt, sleeps)
             ELSE IF rec.success
             THEN IF stop_on_success
                  THEN Ended(log2, Triple(rec), "", attempt, sleeps)
                  ELSE RunFrom(max_retries, stop_on_success, cmd, outs, attempt + 1, log2,
                               sleeps)
             ELSE RunFrom(max_retries, stop_on_success, cmd, outs, attempt + 1, log2,
                          IF attempt < max_retries THEN Append(sleeps, attempt) ELSE sleeps)

\* run_command(cmd) on bot b when the executions of cmd end as outs tells.
run_command(b, cmd, outs) ==
    RunFrom(b.max_retries, b.stop_on_success, cmd, outs, 1, b.attempts, <<>>)

\* ------------------------------------------------------------- state
\* No CommandBot has been constructed, no rotation has been started.
\* The record of the order in which the POSTs come back, as <<repeat, position>>:
\* kept (on) in the runs that follow that order, left empty in the others.
NotFollowed == [on |-> FALSE, seq |-> <<>>]

NoBot == [max_retries |-> 0, stop_on_success |-> TRUE, attempts |-> <<>>]

\* The rotation mode before it is entered: the hotkey names and repetitions it
\* is given, the positions of its two loops (idx, rep), command_results and
\* results of run_with_hotkey_rotation, and the status the process exits with.
NoRotation == [pc |-> "none", hotkeys |-> <<>>, repetitions |-> 0, idx |-> 0, rep |-> 0,
               command_results |-> <<>>, results |-> <<>>, exit_status |-> -1]

\* Lines 338-343: linked_hotkeys and successful_commands of the summary.
linked_hotkeys(rs) == Cardinality({k \in DOMAIN rs : rs[k].linked})

successful_commands(rs) ==
    Cardinality({<<k, j>> \in (DOMAIN rs) \X (1..MaxRepetitions) :
                    j \in DOMAIN rs[k].command_results /\ rs[k].command_results[j].success})

\* Lines 405-408: the status run_hotkey_rotation_mode exits with.
RotationExit(rs) == IF linked_hotkeys(rs) = 0 \/ successful_commands(rs) = 0 THEN 1 ELSE 0

VARIABLES
    args,         \* command line / call arguments, fixed for the run
    files,        \* content of the hotkeys directory, fixed for the run
    pc,           \* position of the control flow of main / batch_submit
    hotkeys,      \* list returned by find_all_hotkeys
    exit_code,    \* value returned by main (-1 while it has not returned)
    repeat_num,   \* loop variable of the repeat loop
    i,            \* loop variable of the batch loop
    tasks,        \* tasks of the running gather call
    results,      \* results of the current repeat
    all_results,  \* results of the finished repeats
    net,          \* <<repeat, position>> -> calls of submit_single, POSTs issued, answer
    running,      \* <<repeat, position>> of the POSTs in flight
    groups,       \* batches launched in the current repeat, as <<first, last>>
    faults,       \* bad files of the run plus transient faults served so far
    summary,      \* what print_summary has written
    clock,        \* time.time() in ms
    envelopes,    \* the headers generated so far, with hotkey and body
    waits,        \* the pauses started: which kind, in which repeat, after which batch
    warnings,     \* the "[WARN] Failed to read" lines find_all_hotkeys has printed
    bodies,       \* the requests serialized so far, each with the body made of it
    bot,          \* a CommandBot: max_retries, stop_on_success, attempts
    calls,        \* the calls of run_command made on bot so far, with what they did
    rot,          \* run_hotkey_rotation_mode: position, results, exit status
    finished      \* the order in which the POSTs came back, in runs that follow it

vars == <<args, files, pc, hotkeys, exit_code, repeat_num, i, tasks, results,
          all_results, net, running, groups, faults, summary, clock, envelopes,
          waits, warnings, bodies, bot, calls, rot, finished>>

Slots == (1..MaxRepeat) \X (1..MaxHotkeys)

ArgSets ==
    [solution : {"missing", "unreadable", "empty", "ok"},
     dry_run : BOOLEAN,
     max_workers : -1..MaxWorkers,
     repeat : -1..MaxRepeat,
     delay : {0, 1},
     repeat_delay : {0, 1}]

\* A run that ends before batch_submit is called reads neither of the four
\* arguments passed to it: one value of each stands for all.
UnreadArgs == {a \in ArgSets : a.max_workers = 1 /\ a.repeat = 1 /\ a.delay = 0
                                 /\ a.repeat_delay = 0}

\* A run starts in main, or in batch_submit when another caller passes it the
\* list find_all_hotkeys returned.
Init ==
    /\ args \in ArgSets
    /\ files \in FileLists
    /\ pc \in {"main", "batch_submit"}
    /\ pc = "batch_submit" => args.solution = "ok" /\ ~args.dry_run
    /\ (args.solution # "ok" \/ args.dry_run) => args \in UnreadArgs
    /\ hotkeys = IF pc = "main" THEN <<>> ELSE find_all_hotkeys(files)
    /\ exit_code = -1
    /\ repeat_num = 0
    /\ i = 0
    /\ tasks = <<>>
    /\ results = <<>>
    /\ all_results = <<>>
    /\ net = [s \in Slots |-> [calls |-> 0, posts |-> 0, got |-> NoTransport]]
    /\ running = {}
    /\ groups = <<>>
    /\ faults = BadFiles(files)
    /\ summary = NoSummary
    /\ clock = 0
    /\ envelopes = <<>>
    /\ waits = {}
    /\ warnings = IF pc = "main" THEN <<>> ELSE ScanWarnings(files, 1)
    /\ bodies = <<>>
    /\ bot = NoBot
    /\ calls = <<>>
    /\ rot = NoRotation
    /\ finished = NotFollowed


\* ------------------------------------------------------------- main
\* Lines 467-485: the solution file is read; a missing, unreadable or empty
\* file ends main with 1.
MainReadSolution ==
    /\ pc = "main"
    /\ IF args.solution # "ok"
       THEN pc' = "exited" /\ exit_code' = 1
       ELSE pc' = "scan" /\ UNCHANGED exit_code
    /\ UNCHANGED <<finished, warnings, bodies, bot, calls, rot, waits, clock, envelopes,
                   summary, args, files, hotkeys, repeat_num, i, tasks, results,
                   all_results,
                   net, running, groups, faults>>

\* The listing of the hotkeys found slices every address.
ListingRaises(hks) == \E k \in DOMAIN hks : ~hks[k].addr_is_str

\* Mutant of AfterScan: the dry-run flag is not looked at.
AfterScanNoDryRun(hks, dry_run) ==
    IF hks = <<>> THEN [pc |-> "exited", exit_code |-> 1]
    ELSE IF ListingRaises(hks) THEN [pc |-> "crashed", exit_code |-> -1]
    ELSE [pc |-> "batch_submit", exit_code |-> -1]

\* Lines 498-516: where main goes with the list found, and what it returns.
AfterScan(hks, dry_run) ==
    IF hks = <<>> THEN [pc |-> "exited", exit_code |-> 1]
    ELSE IF ListingRaises(hks) THEN [pc |-> "crashed", exit_code |-> -1]
    ELSE IF dry_run THEN [pc |-> "exited", exit_code |-> 0]
    ELSE [pc |-> "batch_submit", exit_code |-> -1]

\* Lines 494-516: discovery, the empty check, the listing and the dry run.
MainScan ==
    /\ pc = "scan"
    /\ hotkeys' = find_all_hotkeys(files)
    /\ pc' = AfterScan(hotkeys', args.dry_run).pc
    /\ exit_code' = AfterScan(hotkeys', args.dry_run).exit_code
    /\ warnings' = ScanWarnings(files, 1)
    /\ UNCHANGED <<finished, bodies, bot, calls, rot, waits, clock, envelopes, summary,
                   args, files, repeat_num, i, tasks, results, all_results,
                   net, running, groups, faults>>

\* main reaches its call of batch_submit with a list that is not empty and
\* that the listing could print.
CalledByMain == hotkeys # <<>> /\ ~ListingRaises(hotkeys)

\* Lines 531-536: batch_submit has returned to main.
MainSummary ==
    /\ pc = "returned"
    /\ CalledByMain
    /\ summary' = print_summary(all_results)
    /\ exit_code' = ExitCode(all_results)
    /\ pc' = "exited"
    /\ UNCHANGED <<finished, warnings, bodies, bot, calls, rot, waits, clock, envelopes,
                   args, files, hotkeys, repeat_num, i, tasks, results, all_results,
                   net, running, groups, faults>>

\* ------------------------------------------------------------- batch_submit
\* Line 263.
EnterBatchSubmit ==
    /\ pc = "batch_submit"
    /\ all_results' = <<>>
    /\ repeat_num' = 1
    /\ pc' = "repeat_loop"
    /\ UNCHANGED <<finished, warnings, bodies, bot, calls, rot, waits, clock, envelopes,
                   summary, args, files, hotkeys, exit_code, i, tasks, results,
                   net, running, groups, faults>>

\* Lines 266-274: the head of the repeat loop, up to the creation of the range.
RepeatLoop ==
    /\ pc = "repeat_loop"
    /\ IF repeat_num > args.repeat
       THEN pc' = "returned" /\ UNCHANGED <<results, groups, i>>
       ELSE /\ results' = <<>>
            /\ groups' = <<>>
            /\ i' = 0
            /\ pc' = IF RangeRaises(args.max_workers) THEN "crashed" ELSE "batch_loop"
    /\ UNCHANGED <<finished, warnings, bodies, bot, calls, rot, waits, clock, envelopes,
                   summary, args, files, hotkeys, exit_code, repeat_num, tasks,
                   all_results,
                   net, running, faults>>

\* Lines 274-285: the next batch is cut and its tasks are created; lines
\* 320-326 when the range is exhausted.
BatchLoop ==
    /\ pc = "batch_loop"
    /\ IF InRange(i, Len(hotkeys), args.max_workers)
       THEN LET batch == Batch(hotkeys, i, args.max_workers) IN
            /\ tasks' = [k \in 1..Len(batch) |-> NewTask(i + k)]
            /\ groups' = Append(groups, <<i + 1, i + Len(batch)>>)
            /\ pc' = "gather"
            /\ UNCHANGED <<all_results, repeat_num, waits>>
       ELSE /\ all_results' = Extend(all_results, results)
            /\ IF PauseAfterRepeat(repeat_num, args.repeat, args.repeat_delay)
               THEN /\ pc' = "repeat_sleep"
                    /\ waits' = waits \cup {Wait("repeat", repeat_num, Len(groups))}
                    /\ UNCHANGED repeat_num
               ELSE pc' = "repeat_loop" /\ repeat_num' = repeat_num + 1 /\ UNCHANGED waits
            /\ UNCHANGED <<tasks, groups>>
    /\ UNCHANGED <<finished, warnings, bodies, bot, calls, rot, clock, envelopes, summary,
                   args, files, hotkeys, exit_code, i, results,
                   net, running, faults>>

\* The event loop runs task k up to its first suspension: lines 177-216.
\* Tasks are started in the order gather scheduled them.
TaskStart(k) ==
    /\ pc = "gather"
    /\ k \in DOMAIN tasks
    /\ tasks[k].st = "created"
    /\ \A j \in 1..(k - 1) : tasks[j].st # "created"
    /\ LET pos == i + k
           hk == hotkeys[pos]
           slot == <<repeat_num, pos>>
       IN  IF RaisesBeforeTry(hk)
           THEN /\ tasks' = [tasks EXCEPT ![k] = [@ EXCEPT !.st = "done",
                                  !.raised = "TypeError", !.born = repeat_num]]
                /\ net' = [net EXCEPT ![slot].calls = @ + 1]
                /\ UNCHANGED running
           ELSE IF ~load_keypair(files, hk.hotkey_path)
           THEN /\ tasks' = [tasks EXCEPT ![k] = [@ EXCEPT !.st = "done",
                                  !.out = KeyFailure(hk), !.born = repeat_num]]
                /\ net' = [net EXCEPT ![slot].calls = @ + 1]
                /\ UNCHANGED running
           ELSE /\ tasks' = [tasks EXCEPT ![k] = [@ EXCEPT !.st = "inflight",
                                  !.born = repeat_num]]
                /\ net' = [net EXCEPT ![slot].calls = @ + 1, ![slot].posts = @ + 1]
                /\ running' = running \cup {slot}
    /\ UNCHANGED <<finished, warnings, bodies, bot, calls, rot, waits, clock, envelopes,
                   summary, args, files, pc, hotkeys, exit_code, repeat_num, i, results,
                   all_results, groups, faults>>

\* The POST of task k comes back with t: lines 218-230.
TaskComplete(k, t) ==
    /\ pc = "gather"
    /\ k \in DOMAIN tasks
    /\ tasks[k].st = "inflight"
    /\ t \in Answers(files[hotkeys[i + k].hotkey_path])
    /\ t \in {OkResponse, Rejected} \/ faults < MaxFaults
    /\ faults' = IF t \in {OkResponse, Rejected} THEN faults ELSE faults + 1
    /\ tasks' = [tasks EXCEPT ![k] = Completed(@, hotkeys[i + k], t)]
    /\ net' = [net EXCEPT ![<<tasks[k].born, i + k>>].got = t]
    /\ running' = running \ {<<tasks[k].born, i + k>>}
    /\ finished' = IF finished.on
                   THEN [finished EXCEPT !.seq = Append(@, <<tasks[k].born, i + k>>)]
                   ELSE finished
    /\ UNCHANGED <<warnings, bodies, bot, calls, rot, waits, clock, envelopes, summary,
                   args, files, pc, hotkeys, exit_code, repeat_num, i, results,
                   all_results, groups>>

\* Lines 288-318: gather returns, the results are processed, and the batch
\* delay is started when another batch follows.
GatherDone ==
    /\ pc = "gather"
    /\ GatherReady(tasks)
    /\ LET p == ProcessResults(Batch(hotkeys, i, args.max_workers), tasks, repeat_num, results)
       IN  /\ results' = p.results
           /\ IF p.raised THEN pc' = "crashed" /\ UNCHANGED <<i, waits>>
              ELSE IF PauseAfterBatch(i, args.max_workers, Len(hotkeys), args.delay)
              THEN /\ pc' = "batch_sleep"
                   /\ waits' = waits \cup {Wait("batch", repeat_num, Len(groups))}
                   /\ UNCHANGED i
              ELSE pc' = "batch_loop" /\ i' = i + args.max_workers /\ UNCHANGED waits
    /\ UNCHANGED <<finished, warnings, bodies, bot, calls, rot, clock, envelopes, summary,
                   args, files, hotkeys, exit_code, repeat_num, tasks, all_results,
                   net, running, groups, faults>>

\* asyncio.sleep(delay_between_batches) is over.
BatchSleepDone ==
    /\ pc = "batch_sleep"
    /\ i' = i + args.max_workers
    /\ pc' = "batch_loop"
    /\ UNCHANGED <<finished, warnings, bodies, bot, calls, rot, waits, clock, envelopes,
                   summary, args, files, hotkeys, exit_code, repeat_num, tasks, results,
                   all_results, net, running, groups, faults>>

\* asyncio.sleep(delay_between_repeats) is over.
RepeatSleepDone ==
    /\ pc = "repeat_sleep"
    /\ repeat_num' = repeat_num + 1
    /\ pc' = "repeat_loop"
    /\ UNCHANGED <<finished, warnings, bodies, bot, calls, rot, waits, clock, envelopes,
                   summary, args, files, hotkeys, exit_code, i, tasks, results,
                   all_results, net, running, groups, faults>>

Next ==
    \/ MainReadSolution
    \/ MainScan
    \/ MainSummary
    \/ EnterBatchSubmit
    \/ RepeatLoop
    \/ BatchLoop
    \/ \E k \in 1..MaxWorkers : TaskStart(k)
    \/ \E k \in 1..MaxWorkers, t \in Transport \cup {Rejected} : TaskComplete(k, t)
    \/ GatherDone
    \/ BatchSleepDone
    \/ RepeatSleepDone

Spec == Init /\ [][Next]_vars

\* ------------------------------------------------------------- print_summary alone
\* The outcome dicts a list handed to print_summary can hold: a success, a
\* success whose response could not be read, a failure returned by
\* submit_single and the dict built from an exception, each of some repeat.
SummaryOutcomes ==
    UNION { { [success |-> TRUE, hotkey |-> 1, has_short |-> TRUE, response |-> "{ok}",
               error |-> "None", repeat_num |-> rn, born |-> rn, duration |-> d]
              : d \in 1..MaxDuration }
            \cup
            { [success |-> TRUE, hotkey |-> 1, has_short |-> TRUE, response |-> "None",
               error |-> "JSONDecodeError", repeat_num |-> rn, born |-> rn, duration |-> 1],
              [success |-> FALSE, hotkey |-> 1, has_short |-> TRUE, response |-> "None",
               error |-> "HTTP 500: boom", repeat_num |-> rn, born |-> rn, duration |-> 1],
              [success |-> FALSE, hotkey |-> 1, has_short |-> FALSE, response |-> "None",
               error |-> "TypeError", repeat_num |-> rn, born |-> rn, duration |-> 0] }
            : rn \in 1..MaxRepeat }

\* print_summary is called with some list of outcomes.
InitSummary ==
    /\ args = [solution |-> "ok", dry_run |-> FALSE, max_workers |-> 1, repeat |-> 1,
               delay |-> 0, repeat_delay |-> 0]
    /\ files = <<>>
    /\ pc = "print_summary"
    /\ hotkeys = <<>>
    /\ exit_code = -1
    /\ repeat_num = 0
    /\ i = 0
    /\ tasks = <<>>
    /\ results = <<>>
    /\ all_results \in SeqsUpTo(SummaryOutcomes, MaxOutcomes)
    /\ net = [s \in Slots |-> [calls |-> 0, posts |-> 0, got |-> NoTransport]]
    /\ running = {}
    /\ groups = <<>>
    /\ faults = 0
    /\ summary = NoSummary
    /\ clock = 0
    /\ envelopes = <<>>
    /\ waits = {}
    /\ warnings = <<>>
    /\ bodies = <<>>
    /\ bot = NoBot
    /\ calls = <<>>
    /\ rot = NoRotation
    /\ finished = NotFollowed

\* Lines 330-364.
PrintSummary ==
    /\ pc = "print_summary"
    /\ summary' = print_summary(all_results)
    /\ pc' = "printed"
    /\ UNCHANGED <<finished, warnings, bodies, bot, calls, rot, waits, clock, envelopes,
                   args, files, hotkeys, exit_code, repeat_num, i, tasks, results,
                   all_results, net, running, groups, faults>>

NextSummary == PrintSummary

SummarySpec == InitSummary /\ [][NextSummary]_vars

\* ------------------------------------------------------------- signing alone
\* uuid.uuid4() draws 122 random bits: every call gives a value no earlier call
\* gave, here the number of the call.
uuid4 == Len(envelopes) + 1

InitSign ==
    /\ args = [solution |-> "ok", dry_run |-> FALSE, max_workers |-> 1, repeat |-> 1,
               delay |-> 0, repeat_delay |-> 0]
    /\ files = <<>>
    /\ pc = "sign"
    /\ hotkeys = <<>>
    /\ exit_code = -1
    /\ repeat_num = 0
    /\ i = 0
    /\ tasks = <<>>
    /\ results = <<>>
    /\ all_results = <<>>
    /\ net = [s \in Slots |-> [calls |-> 0, posts |-> 0, got |-> NoTransport]]
    /\ running = {}
    /\ groups = <<>>
    /\ faults = 0
    /\ summary = NoSummary
    /\ clock = 0
    /\ envelopes = <<>>
    /\ waits = {}
    /\ warnings = <<>>
    /\ bodies = <<>>
    /\ bot = NoBot
    /\ calls = <<>>
    /\ rot = NoRotation
    /\ finished = NotFollowed

\* The clock moves on to the next millisecond.
Tick ==
    /\ clock < MaxClock
    /\ clock' = clock + 1
    /\ UNCHANGED <<finished, warnings, bodies, bot, calls, rot, waits, envelopes, summary,
                   args, files, pc, hotkeys, exit_code, repeat_num,
                   i, tasks, results, all_results, net, running, groups, faults>>

\* Lines 207-208 of submit_single: hotkey signs body.
Sign(hotkey, body) ==
    /\ Len(envelopes) < MaxSign
    /\ envelopes' = Append(envelopes,
                           [hotkey |-> hotkey, body |-> body,
                            headers |-> generate_header(hotkey, body, clock, uuid4)])
    /\ UNCHANGED <<finished, warnings, bodies, bot, calls, rot, waits, clock, summary,
                   args, files, pc, hotkeys, exit_code, repeat_num,
                   i, tasks, results, all_results, net, running, groups, faults>>

NextSign ==
    \/ Tick
    \/ \E hotkey \in Keypairs, body \in Bodies : Sign(hotkey, body)

SignSpec == InitSign /\ [][NextSign]_vars

\* ------------------------------------------------------------- serialization alone
\* The permutations of the sequence s.
Permutations_of(s) ==
    {t \in [DOMAIN s -> {s[k] : k \in DOMAIN s}] : \A x \in {s[k] : k \in DOMAIN s} :
                                                      \E k \in DOMAIN t : t[k] = x}

\* The requests of submit_single (lines 200-204), and the same dicts built in
\* another order of their keys.
Requests ==
    UNION { Permutations_of(<< [key |-> "competition_id", kind |-> "int", text |-> c],
                               [key |-> "round_number", kind |-> "int", text |-> "-1"],
                               [key |-> "raw_code", kind |-> "str", text |-> code] >>)
            : c \in {"1", "2"}, code \in {"x", "1"} }

InitSerial ==
    /\ args = [solution |-> "ok", dry_run |-> FALSE, max_workers |-> 1, repeat |-> 1,
               delay |-> 0, repeat_delay |-> 0]
    /\ files = <<>>
    /\ pc = "serialize"
    /\ hotkeys = <<>>
    /\ exit_code = -1
    /\ repeat_num = 0
    /\ i = 0
    /\ tasks = <<>>
    /\ results = <<>>
    /\ all_results = <<>>
    /\ net = [s \in Slots |-> [calls |-> 0, posts |-> 0, got |-> NoTransport]]
    /\ running = {}
    /\ groups = <<>>
    /\ faults = 0
    /\ summary = NoSummary
    /\ clock = 0
    /\ envelopes = <<>>
    /\ waits = {}
    /\ warnings = <<>>
    /\ bodies = <<>>
    /\ bot = NoBot
    /\ calls = <<>>
    /\ rot = NoRotation
    /\ finished = NotFollowed

\* Line 207: body_bytes = self.create_message_body(submit_request)
CreateBody(data) ==
    /\ Len(bodies) < MaxBodies
    /\ bodies' = Append(bodies, [request |-> data, body |-> create_message_body(data)])
    /\ UNCHANGED <<finished, warnings, bot, calls, rot, waits, clock, envelopes, summary,
                   args, files,
                   pc, hotkeys, exit_code, repeat_num, i, tasks, results, all_results,
                   net, running, groups, faults>>

NextSerial == \E data \in Requests : CreateBody(data)

SerialSpec == InitSerial /\ [][NextSerial]_vars

\* ------------------------------------------------------------- discovery alone
\* The kinds of file a scan tells apart ("rejected" is "valid" to it).
ScanKinds == FileKinds \ {"rejected"}

InitDiscovery ==
    /\ args = [solution |-> "ok", dry_run |-> FALSE, max_workers |-> 1, repeat |-> 1,
               delay |-> 0, repeat_delay |-> 0]
    /\ files \in SeqsUpTo(ScanKinds, MaxFiles)
    /\ pc = "find_all_hotkeys"
    /\ hotkeys = <<>>
    /\ exit_code = -1
    /\ repeat_num = 0
    /\ i = 0
    /\ tasks = <<>>
    /\ results = <<>>
    /\ all_results = <<>>
    /\ net = [s \in Slots |-> [calls |-> 0, posts |-> 0, got |-> NoTransport]]
    /\ running = {}
    /\ groups = <<>>
    /\ faults = 0
    /\ summary = NoSummary
    /\ clock = 0
    /\ envelopes = <<>>
    /\ waits = {}
    /\ warnings = <<>>
    /\ bodies = <<>>
    /\ bot = NoBot
    /\ calls = <<>>
    /\ rot = NoRotation
    /\ finished = NotFollowed

\* One call of find_all_hotkeys on the directory.
Discover ==
    /\ pc = "find_all_hotkeys"
    /\ hotkeys' = find_all_hotkeys(files)
    /\ warnings' = ScanWarnings(files, 1)
    /\ pc' = "discovered"
    /\ UNCHANGED <<finished, bodies, bot, calls, rot, waits, clock, envelopes, summary,
                   args, files,
                   exit_code, repeat_num, i, tasks, results, all_results, net, running,
                   groups, faults>>

NextDiscovery == Discover

DiscoverySpec == InitDiscovery /\ [][NextDiscovery]_vars

\* ------------------------------------------------------------- CommandBot alone
\* The sequences of length n over S.
SeqsOfLen(S, n) == [1..n -> S]

\* CommandBot(max_retries, stop_on_success=...): lines 68-72.
InitBot ==
    /\ args = [solution |-> "ok", dry_run |-> FALSE, max_workers |-> 1, repeat |-> 1,
               delay |-> 0, repeat_delay |-> 0]
    /\ files = <<>>
    /\ pc = "bot"
    /\ hotkeys = <<>>
    /\ exit_code = -1
    /\ repeat_num = 0
    /\ i = 0
    /\ tasks = <<>>
    /\ results = <<>>
    /\ all_results = <<>>
    /\ net = [s \in Slots |-> [calls |-> 0, posts |-> 0, got |-> NoTransport]]
    /\ running = {}
    /\ groups = <<>>
    /\ faults = 0
    /\ summary = NoSummary
    /\ clock = 0
    /\ envelopes = <<>>
    /\ waits = {}
    /\ warnings = <<>>
    /\ bodies = <<>>
    /\ \E m \in 0..MaxRetries, s \in BOOLEAN :
          bot = [max_retries |-> m, stop_on_success |-> s, attempts |-> <<>>]
    /\ calls = <<>>
    /\ rot = NoRotation
    /\ finished = NotFollowed

\* One call of run_command, from its first line to its return or exception.
\* The call is kept with what it was given and how it ended; logged_before is
\* the length of self.attempts when it began.
CallRunCommand(cmd, outs) ==
    /\ pc = "bot"
    /\ Len(calls) < MaxCalls
    /\ LET e == run_command(bot, cmd, outs)
       IN  /\ bot' = [bot EXCEPT !.attempts = e.attempts]
           /\ calls' = Append(calls, [command |-> cmd, outs |-> outs,
                                      logged_before |-> Len(bot.attempts),
                                      ret |-> e.ret, raised |-> e.raised,
                                      executed |-> e.executed, sleeps |-> e.sleeps])
    /\ UNCHANGED <<finished, warnings, bodies, rot, waits, clock, envelopes, summary,
                   args, files, pc,
                   hotkeys, exit_code, repeat_num, i, tasks, results, all_results, net,
                   running, groups, faults>>

NextBot == \E cmd \in Commands, outs \in SeqsOfLen(Outcomes, bot.max_retries) :
               CallRunCommand(cmd, outs)

BotSpec == InitBot /\ [][NextBot]_vars

\* ------------------------------------------------------------- hotkey rotation
\* run_hotkey_rotation_mode is entered with a list of distinct hotkey names
\* (written 1..n), a number of repetitions, and the --max-retries of its bot.
InitRotation ==
    /\ args = [solution |-> "ok", dry_run |-> FALSE, max_workers |-> 1, repeat |-> 1,
               delay |-> 0, repeat_delay |-> 0]
    /\ files = <<>>
    /\ pc = "rotation"
    /\ hotkeys = <<>>
    /\ exit_code = -1
    /\ repeat_num = 0
    /\ i = 0
    /\ tasks = <<>>
    /\ results = <<>>
    /\ all_results = <<>>
    /\ net = [s \in Slots |-> [calls |-> 0, posts |-> 0, got |-> NoTransport]]
    /\ running = {}
    /\ groups = <<>>
    /\ faults = 0
    /\ summary = NoSummary
    /\ clock = 0
    /\ envelopes = <<>>
    /\ waits = {}
    /\ warnings = <<>>
    /\ bodies = <<>>
    /\ \E m \in 0..MaxRetries :
          bot = [max_retries |-> m, stop_on_success |-> TRUE, attempts |-> <<>>]
    /\ calls = <<>>
    /\ \E n \in 0..MaxRotHotkeys, reps \in 0..MaxRepetitions :
          rot = [NoRotation EXCEPT !.pc = "start", !.hotkeys = [k \in 1..n |-> k],
                                   !.repetitions = reps]
    /\ finished = NotFollowed

\* A command does the same at each of its attempts.
Steady(o) == [k \in 1..bot.max_retries |-> o]

\* Lines 385-400, 260: no hotkeys ends the process with 1; otherwise the bot is
\* made and the loop over the hotkeys begins.
StartRotation ==
    /\ rot.pc = "start"
    /\ rot' = IF rot.hotkeys = <<>>
              THEN [rot EXCEPT !.pc = "exited", !.exit_status = 1]
              ELSE [rot EXCEPT !.pc = "link", !.idx = 1]
    /\ UNCHANGED <<finished, warnings, bodies, bot, calls, waits, clock, envelopes,
                   summary, args,
                   files, pc, hotkeys, exit_code, repeat_num, i, tasks, results,
                   all_results, net, running, groups, faults>>

\* results[hotkey] = entry (lines 276-280, 316-319), then the next hotkey, or
\* the return when there is none.
NextHotkey(r, entry) ==
    [r EXCEPT !.results = Append(r.results, entry),
              !.command_results = <<>>,
              !.rep = 0,
              !.idx = r.idx + 1,
              !.pc = IF r.idx < Len(r.hotkeys) THEN "link" ELSE "summary"]

\* Lines 260-286: the hotkey is linked with run_command. An exception of
\* run_command ends the process with a traceback and status 1.
Link(o) ==
    /\ rot.pc = "link"
    /\ LET e == run_command(bot, "link", Steady(o))
           hk == rot.hotkeys[rot.idx]
       IN  /\ bot' = [bot EXCEPT !.attempts = e.attempts]
           /\ rot' = IF e.raised # ""
                     THEN [rot EXCEPT !.pc = "exited", !.exit_status = 1]
                     ELSE IF e.ret.exit_code # 0
                     THEN NextHotkey(rot, [hotkey |-> hk, linked |-> FALSE,
                                           command_results |-> <<>>])
                     ELSE IF rot.repetitions >= 1
                     THEN [rot EXCEPT !.pc = "command", !.rep = 1, !.command_results = <<>>]
                     ELSE NextHotkey(rot, [hotkey |-> hk, linked |-> TRUE,
                                           command_results |-> <<>>])
    /\ UNCHANGED <<finished, warnings, bodies, calls, waits, clock, envelopes, summary,
                   args, files,
                   pc, hotkeys, exit_code, repeat_num, i, tasks, results, all_results,
                   net, running, groups, faults>>

\* Lines 286-319: one repetition of the command for the linked hotkey.
Command(o) ==
    /\ rot.pc = "command"
    /\ LET e == run_command(bot, "submit", Steady(o))
           done == Append(rot.command_results,
                          [repetition |-> rot.rep, exit_code |-> e.ret.exit_code,
                           success |-> e.ret.exit_code = 0])
       IN  /\ bot' = [bot EXCEPT !.attempts = e.attempts]
           /\ rot' = IF e.raised # ""
                     THEN [rot EXCEPT !.pc = "exited", !.exit_status = 1]
                     ELSE IF rot.rep < rot.repetitions
                     THEN [rot EXCEPT !.rep = rot.rep + 1, !.command_results = done]
                     ELSE NextHotkey(rot, [hotkey |-> rot.hotkeys[rot.idx], linked |-> TRUE,
                                           command_results |-> done])
    /\ UNCHANGED <<finished, warnings, bodies, calls, waits, clock, envelopes, summary,
                   args, files,
                   pc, hotkeys, exit_code, repeat_num, i, tasks, results, all_results,
                   net, running, groups, faults>>

\* Lines 402-408: the summary is shown and the process exits.
ExitRotation ==
    /\ rot.pc = "summary"
    /\ rot' = [rot EXCEPT !.pc = "exited", !.exit_status = RotationExit(rot.results)]
    /\ UNCHANGED <<finished, warnings, bodies, bot, calls, waits, clock, envelopes,
                   summary, args,
                   files, pc, hotkeys, exit_code, repeat_num, i, tasks, results,
                   all_results, net, running, groups, faults>>

NextRotation ==
    \/ StartRotation
    \/ \E o \in Outcomes : Link(o)
    \/ \E o \in Outcomes : Command(o)
    \/ ExitRotation

RotationSpec == InitRotation /\ [][NextRotation]_vars

\* ------------------------------------------------------------- completion order
\* Runs of main over key files that are all complete, with both pauses and
\* without transient faults (every hotkey is accepted or rejected by the
\* service), in which the order the POSTs come back in is followed.
InitOrder ==
    /\ args \in {a \in ArgSets : /\ a.solution = "ok" /\ ~a.dry_run
                                 /\ a.max_workers >= 1 /\ a.repeat >= 1
                                 /\ a.delay = 1 /\ a.repeat_delay = 1}
    /\ files \in {fs \in FileLists :
                     fs # <<>> /\ \A k \in DOMAIN fs : fs[k] \in {"valid", "rejected"}}
    /\ pc = "main"
    /\ hotkeys = <<>>
    /\ exit_code = -1
    /\ repeat_num = 0
    /\ i = 0
    /\ tasks = <<>>
    /\ results = <<>>
    /\ all_results = <<>>
    /\ net = [s \in Slots |-> [calls |-> 0, posts |-> 0, got |-> NoTransport]]
    /\ running = {}
    /\ groups = <<>>
    /\ faults = MaxFaults
    /\ summary = NoSummary
    /\ clock = 0
    /\ envelopes = <<>>
    /\ waits = {}
    /\ warnings = <<>>
    /\ bodies = <<>>
    /\ bot = NoBot
    /\ calls = <<>>
    /\ rot = NoRotation
    /\ finished = [on |-> TRUE, seq |-> <<>>]

OrderSpec == InitOrder /\ [][Next]_vars

TypeOK ==
    /\ pc \in {"main", "scan", "batch_submit", "repeat_loop", "batch_loop", "gather",
               "batch_sleep", "repeat_sleep", "returned", "exited", "crashed",
               "print_summary", "printed", "sign", "serialize",
              "find_all_hotkeys", "discovered", "bot", "rotation"}
    /\ exit_code \in {-1, 0, 1}
    /\ faults \in 0..MaxFaults


\* ============================================================ properties
N == Len(hotkeys)
C == args.max_workers
R == args.repeat

\* The least q with q * c >= n.
Ceil(n, c) == CHOOSE q \in 0..n : q * c >= n /\ (q = 0 \/ (q - 1) * c < n)

AllOutcomes == all_results \o results

\* A repeat has run all its batches: the repeat delay runs, the next repeat
\* is about to start, or batch_submit has returned.
CycleEnded ==
    \/ pc = "repeat_sleep"
    \/ pc = "repeat_loop" /\ repeat_num > 1
    \/ pc = "returned" /\ R >= 1

EndedCycle ==
    IF pc = "repeat_sleep" THEN repeat_num
    ELSE IF pc = "repeat_loop" THEN repeat_num - 1
    ELSE R

\* C1: with max_workers C >= 1, the batches launched in a repeat are the
\* consecutive slices [1..C], [C+1..2C], ... of the hotkey list in list order,
\* each of size <= C and only the last one possibly smaller; when the repeat
\* has ended there are ceil(N/C) of them and submit_single has been called
\* exactly once for each of the N hotkeys.
C1_Partition ==
    (C >= 1 /\ R >= 1) =>
        /\ \A g \in DOMAIN groups :
              /\ groups[g] = <<(g - 1) * C + 1, Min(g * C, N)>>
              /\ groups[g][2] - groups[g][1] + 1 \in 1..C
              /\ g < Len(groups) => groups[g][2] - groups[g][1] + 1 = C
        /\ CycleEnded =>
              /\ Len(groups) = Ceil(N, C)
              /\ \A pos \in 1..N : net[<<EndedCycle, pos>>].calls = 1

\* Three hotkeys with two workers have been submitted as groups of 2 and 1.
C1_Witness ==
    /\ pc = "returned" /\ N = 3 /\ C = 2
    /\ groups = << <<1, 2>>, <<3, 3>> >>

\* C2: the list batch_submit returns has N*R outcomes, each stamped with the
\* repeat in which it was produced, a value of 1..R, and every repeat of 1..R
\* is carried by exactly N outcomes, whatever the submissions produced.
C2_OutcomeCount ==
    (pc = "returned" /\ R >= 1 /\ C >= 1) =>
        /\ Len(all_results) = N * R
        /\ \A k \in DOMAIN all_results :
              /\ all_results[k].repeat_num \in 1..R
              /\ all_results[k].repeat_num = all_results[k].born
        /\ \A r \in 1..R :
              Cardinality({k \in DOMAIN all_results : all_results[k].repeat_num = r}) = N

\* Two repeats of three hotkeys have returned six outcomes, failures among them.
C2_Witness ==
    /\ pc = "returned" /\ R = 2 /\ N = 3 /\ Len(all_results) = 6
    /\ \E j, k \in DOMAIN all_results : all_results[j].success /\ ~all_results[k].success

\* C3: at most max_workers submissions are in flight, all of them of the
\* batch being gathered; nothing is in flight outside a gather call, and no
\* submission of a later batch or repeat has been started.
C3_BoundedInFlight ==
    /\ C >= 1 => Cardinality(running) <= C
    /\ pc # "gather" => running = {}
    /\ \A s \in running : s[1] = repeat_num /\ s[2] \in (i + 1)..(i + C)
    /\ \A s \in Slots :
          (s[1] > repeat_num \/ (pc = "gather" /\ s[1] = repeat_num /\ s[2] > i + C))
              => net[s].calls = 0

\* Two submissions are in flight at once.
C3_Witness == C = 2 /\ Cardinality(running) = 2

\* C4: a dict returned by submit_single has success = true exactly when the
\* POST of that submission came back with status 200; no response, or any
\* other status, gives success = false.
C4_SuccessIff200 ==
    \A k \in DOMAIN tasks :
        (tasks[k].st = "done" /\ tasks[k].raised = "") =>
            (tasks[k].out.success <=>
                net[<<tasks[k].born, tasks[k].pos>>].got.status_code = 200)

\* A batch holds a success and a failure answered with another 2xx status.
C4_Witness ==
    \E j, k \in DOMAIN tasks :
        /\ tasks[j].st = "done" /\ tasks[j].out.success
        /\ tasks[k].st = "done" /\ ~tasks[k].out.success
        /\ net[<<tasks[k].born, tasks[k].pos>>].got.status_code = 201

\* What submit_single returns for hk on its own when its POST is answered t.
Alone(hk, t) ==
    IF ~load_keypair(files, hk.hotkey_path) THEN KeyFailure(hk) ELSE AfterPost(hk, t)

SameAsAlone(r, pos) ==
    /\ r.hotkey = hotkeys[pos].ss58_address
    /\ LET a == Alone(hotkeys[pos], net[<<r.repeat_num, pos>>].got)
       IN  r.success = a.success /\ r.response = a.response /\ r.error = a.error

\* C5: whichever hotkeys of a batch fail (key error, transport error, status
\* other than 200), every hotkey of a processed batch has exactly one outcome
\* in the repeat, at its place, and its success, response and error are those
\* submit_single gives for that hotkey and its own answer alone.
C5_Isolation ==
    /\ \A k \in DOMAIN results : results[k].has_short => SameAsAlone(results[k], k)
    /\ \A k \in DOMAIN all_results : SameAsAlone(all_results[k], ((k - 1) % N) + 1)
    /\ pc = "batch_sleep" => Len(results) = Min(i + C, N)
    /\ pc = "batch_loop" => Len(results) = Min(i, N)

\* A processed batch of two holds a success next to a failure.
C5_Witness ==
    /\ pc \in {"batch_sleep", "batch_loop"} /\ C = 2
    /\ \E k \in DOMAIN results :
          /\ k % 2 = 1 /\ k + 1 \in DOMAIN results
          /\ results[k].success # results[k + 1].success


\* C6: when gather has returned an exception object for a task, batch_submit
\* does not crash: the outcomes hold a failure for that hotkey whose error is
\* the text of the exception, stamped with the repeat of the task.
C6_FaultBecomesOutcome ==
    \A k \in DOMAIN tasks :
        (tasks[k].raised # "" /\ pc # "gather") =>
            /\ pc # "crashed"
            /\ \E j \in DOMAIN AllOutcomes :
                  /\ AllOutcomes[j].hotkey = hotkeys[tasks[k].pos].ss58_address
                  /\ ~AllOutcomes[j].success
                  /\ AllOutcomes[j].error = tasks[k].raised
                  /\ AllOutcomes[j].repeat_num = tasks[k].born

\* C7: a submission whose key cannot be loaded, whose POST raises or whose
\* response cannot be read returns a dict with success = false and the text of
\* the exception as error; it does not raise.
C7_FailuresAreCaught ==
    \A k \in DOMAIN tasks :
        tasks[k].st = "done" =>
            LET hk == hotkeys[tasks[k].pos]
                g == net[<<tasks[k].born, tasks[k].pos>>].got
                failed(text) == /\ tasks[k].raised = ""
                                /\ ~tasks[k].out.success
                                /\ tasks[k].out.error = text
            IN  /\ (hk.addr_is_str /\ ~load_keypair(files, hk.hotkey_path)) => failed(NoKeyText)
                /\ g.exc # "" => failed(g.exc)
                /\ (g.exc = "" /\ g.status_code = 200 /\ ~g.is_json) => failed("JSONDecodeError")

\* C8: submit_single is called at most once and a POST is issued at most once
\* for every pair of a repeat and a hotkey, also when the submission failed;
\* when batch_submit has returned, every pair has had its call and has exactly
\* one outcome.
C8_OncePerCycle ==
    /\ \A s \in Slots : net[s].calls <= 1 /\ net[s].posts <= net[s].calls
    /\ (pc = "returned" /\ R >= 1 /\ C >= 1) =>
          \A r \in 1..R, pos \in 1..N :
              /\ net[<<r, pos>>].calls = 1
              /\ Cardinality({k \in DOMAIN all_results :
                                 /\ all_results[k].hotkey = hotkeys[pos].ss58_address
                                 /\ all_results[k].repeat_num = r}) = 1

\* Two repeats have returned, one submission met a transport exception and was
\* posted once.
C8_Witness ==
    /\ pc = "returned" /\ R = 2
    /\ \E s \in Slots : net[s].posts = 1 /\ net[s].got.exc # ""

\* main ends on a configuration error: no readable, non-empty solution, or no hotkey.
ConfigError == args.solution # "ok" \/ find_all_hotkeys(files) = <<>>

\* C9: main returns 1 on a configuration error; after a run of batch_submit
\* it returns 0 if every outcome has success = true and 1 if some outcome has
\* success = false.
C9_ExitCode ==
    pc = "exited" =>
        /\ ConfigError => exit_code = 1
        /\ (~ConfigError /\ ~args.dry_run) =>
              /\ (\A k \in DOMAIN all_results : all_results[k].success) => exit_code = 0
              /\ (\E k \in DOMAIN all_results : ~all_results[k].success) => exit_code = 1

\* main has returned 1 after a run with successes and a failure.
C9_Witness ==
    /\ pc = "exited" /\ exit_code = 1 /\ ~ConfigError
    /\ \E j, k \in DOMAIN all_results : all_results[j].success /\ ~all_results[k].success

\* C10: in a run with a configuration error and in a dry run no submission
\* is started and no POST is issued; with a bad solution file or the dry-run
\* flag main never gets to batch_submit.
C10_NoNetwork ==
    (ConfigError \/ args.dry_run) =>
        /\ \A s \in Slots : net[s].calls = 0 /\ net[s].posts = 0
        /\ running = {}
        /\ (args.solution # "ok" \/ args.dry_run) => pc \in {"main", "scan", "exited", "crashed"}

\* A dry run that found hotkeys has returned 0.
C10_Witness == pc = "exited" /\ args.dry_run /\ N > 0 /\ exit_code = 0

\* C11: batch_submit with max_workers >= 1 never ends by an exception because
\* of what happened to a submission, and when it returns all the repeats have
\* run: every hotkey was submitted in every repeat of 1..R.
C11_RunsAllCycles ==
    (C >= 1 /\ repeat_num >= 1) =>
        /\ pc # "crashed"
        /\ pc = "returned" =>
              /\ R >= 1 => repeat_num = R + 1
              /\ \A r \in 1..R, pos \in 1..N : net[<<r, pos>>].calls = 1

\* Position in the hotkey list of the hotkey with address h, and its batch.
PosOf(h) == CHOOSE p \in 1..N : hotkeys[p].ss58_address = h
GroupOf(h) == (PosOf(h) - 1) \div C

\* C12: in the list batch_submit returns, an outcome of repeat r comes before
\* every outcome of repeat r + 1, and within a repeat an outcome of batch g
\* comes before every outcome of batch g + 1.
C12_CycleGroupOrder ==
    (pc \in {"returned", "exited"} /\ C >= 1) =>
        \A j, k \in DOMAIN all_results :
            j < k =>
                /\ all_results[j].repeat_num <= all_results[k].repeat_num
                /\ all_results[j].repeat_num = all_results[k].repeat_num
                      => GroupOf(all_results[j].hotkey) <= GroupOf(all_results[k].hotkey)

\* Two repeats of two batches each have been returned.
C12_Witness ==
    /\ pc = "returned" /\ R = 2 /\ N = 3 /\ C = 2 /\ Len(all_results) = 6
    /\ GroupOf(all_results[2].hotkey) = 0 /\ GroupOf(all_results[3].hotkey) = 1
    /\ all_results[3].repeat_num = 1 /\ all_results[4].repeat_num = 2

\* The sum of the durations of the outcomes of rs at the indices of S.
RECURSIVE DurationOver(_, _)
DurationOver(rs, S) ==
    IF S = {} THEN 0
    ELSE LET k == CHOOSE x \in S : TRUE
         IN  rs[k].duration + DurationOver(rs, S \ {k})

SuccessIndices == {k \in DOMAIN all_results : all_results[k].success}

\* C13: the summary of a list gives total = its length, successful = the
\* number of its outcomes with success = true and failed = total - successful,
\* so successful + failed = total and 0 <= successful <= total.
C13_SummaryCounts ==
    summary.printed =>
        /\ summary.total = Len(all_results)
        /\ summary.successful = Cardinality(SuccessIndices)
        /\ summary.failed = summary.total - summary.successful
        /\ summary.successful + summary.failed = summary.total
        /\ summary.successful \in 0..summary.total

\* A list of three outcomes, one of them a success without a response, has
\* been summarised as 2 successful and 1 failed.
C13_Witness ==
    /\ summary.printed /\ summary.total = 3
    /\ summary.successful = 2 /\ summary.failed = 1
    /\ \E k \in DOMAIN all_results : all_results[k].success /\ all_results[k].response = "None"

\* C14: the average the summary reports is the sum of the durations of the
\* successful outcomes over their number, the failed outcomes count in neither;
\* without a successful outcome nothing is divided and no average is reported.
C14_AverageOverSuccesses ==
    summary.printed =>
        IF SuccessIndices = {}
        THEN ~summary.avg.reported
        ELSE /\ summary.avg.reported
             /\ summary.avg.n = Cardinality(SuccessIndices)
             /\ summary.avg.sum = DurationOver(all_results, SuccessIndices)

\* Two successes of durations 1 and 2 next to a failure that took time: 3 / 2.
C14_Witness ==
    /\ summary.printed /\ Len(all_results) = 3
    /\ summary.avg.reported /\ summary.avg.sum = 3 /\ summary.avg.n = 2
    /\ \E k \in DOMAIN all_results : ~all_results[k].success /\ all_results[k].duration > 0

\* A list without a success has been summarised without an average.
C14_WitnessNoSuccess ==
    /\ summary.printed /\ Len(all_results) = 2 /\ ~summary.avg.reported

\* The repeat numbers that occur in the list.
Occurring == {all_results[k].repeat_num : k \in DOMAIN all_results}

\* The breakdown has one line per occurring repeat number, in ascending order,
\* each with the successful and the total number of outcomes of that repeat.
BreakdownRight ==
    LET b == summary.breakdown IN
    /\ Len(b) = Cardinality(Occurring)
    /\ {b[k].repeat_num : k \in DOMAIN b} = Occurring
    /\ \A j, k \in DOMAIN b : j < k => b[j].repeat_num < b[k].repeat_num
    /\ \A k \in DOMAIN b :
          /\ b[k].total = Cardinality({j \in DOMAIN all_results :
                                          all_results[j].repeat_num = b[k].repeat_num})
          /\ b[k].success = Cardinality({j \in SuccessIndices :
                                            all_results[j].repeat_num = b[k].repeat_num})

\* C15 as stated: the summary of every list that is not empty holds the
\* per-repeat breakdown of the repeat numbers occurring in it.
C15_BreakdownAlways ==
    (summary.printed /\ all_results # <<>>) => BreakdownRight

\* C15 amended: the summary of a list in which more than one repeat number
\* occurs holds the per-repeat breakdown, one line per repeat number in
\* ascending order; a list with one repeat number gets no such line.
C15_BreakdownOfRepeats ==
    summary.printed =>
        IF Cardinality(Occurring) > 1 THEN BreakdownRight ELSE summary.breakdown = <<>>

\* A list whose outcomes of repeat 2 come before one of repeat 1 has been
\* broken down as repeat 1: 0/1, repeat 2: 1/2.
C15_Witness ==
    /\ summary.printed /\ Len(all_results) = 3
    /\ all_results[1].repeat_num = 2 /\ all_results[3].repeat_num = 1
    /\ summary.breakdown = << [repeat_num |-> 1, success |-> 0, total |-> 1],
                              [repeat_num |-> 2, success |-> 1, total |-> 2] >>

\* Two signing operations of the same body by the same hotkey.
SameRequest(j, k) ==
    /\ j < k
    /\ envelopes[j].hotkey = envelopes[k].hotkey
    /\ envelopes[j].body = envelopes[k].body

SameDigest(j, k) == envelopes[j].headers.signed[1] = envelopes[k].headers.signed[1]

NoPairTwice ==
    \A j, k \in DOMAIN envelopes :
        j # k => <<envelopes[j].headers.timestamp, envelopes[j].headers.request_id>>
                 # <<envelopes[k].headers.timestamp, envelopes[k].headers.request_id>>

\* C16 as stated: two signing operations of the same body by the same hotkey
\* give the same digest, different timestamps and different request ids, and
\* no two signing operations give the same pair of timestamp and request id.
C16_FreshTimestampAndId ==
    /\ \A j, k \in DOMAIN envelopes :
          SameRequest(j, k) =>
              /\ SameDigest(j, k)
              /\ envelopes[j].headers.timestamp # envelopes[k].headers.timestamp
              /\ envelopes[j].headers.request_id # envelopes[k].headers.request_id
    /\ NoPairTwice

\* C16 amended: two signing operations of the same body by the same hotkey
\* give the same digest and different request ids (the timestamps are equal
\* when both fall in one millisecond), and no two signing operations give the
\* same pair of timestamp and request id.
C16_FreshId ==
    /\ \A j, k \in DOMAIN envelopes :
          SameRequest(j, k) =>
              /\ SameDigest(j, k)
              /\ envelopes[j].headers.request_id # envelopes[k].headers.request_id
    /\ NoPairTwice

\* The same body has been signed by the same hotkey twice in one millisecond
\* and once more in a later one.
C16_Witness ==
    /\ Len(envelopes) = 3
    /\ SameRequest(1, 2) /\ SameRequest(2, 3)
    /\ envelopes[1].headers.timestamp = envelopes[2].headers.timestamp
    /\ envelopes[2].headers.timestamp < envelopes[3].headers.timestamp

\* main has passed its checks of the solution file and of the hotkey list,
\* and is not a dry run.
PastChecks ==
    /\ args.solution = "ok" /\ ~args.dry_run /\ hotkeys # <<>>
    /\ CalledByMain \/ repeat_num = 0

\* C17: a run of main that has passed its checks and is not a dry run does
\* not end by an exception before the summary, and when main has returned the
\* summary has been printed, with the listing of the failed outcomes, one line
\* per failed outcome, exactly when some outcome failed.
C17_SummaryAlwaysPrinted ==
    PastChecks =>
        /\ pc # "crashed"
        /\ pc = "exited" =>
              /\ summary.printed
              /\ summary.failed_listing <=> (\E k \in DOMAIN all_results : ~all_results[k].success)
              /\ Len(summary.failed_lines)
                    = Cardinality({k \in DOMAIN all_results : ~all_results[k].success})

\* The service answers hotkey x with one status other than 200 in every
\* repeat, and every other hotkey with 200.
OnlyRejects(x) ==
    /\ \A r \in 1..R :
          /\ net[<<r, x>>].got.exc = ""
          /\ net[<<r, x>>].got.status_code \notin {0, 200}
          /\ net[<<r, x>>].got.status_code = net[<<1, x>>].got.status_code
    /\ \A r \in 1..R, y \in 1..N : y # x => net[<<r, y>>].got.status_code = 200

\* The text "HTTP s: " followed by the body, for the answers of the service.
RejectionText(t) ==
    IF t.status_code = 500 THEN "HTTP 500: boom" ELSE "HTTP 201: {queued}"

\* C18: when the service answers hotkey x with a status other than 200 in
\* every repeat and all the others with 200, the returned list holds exactly R
\* outcomes of x, one per repeat, each a failure whose error is "HTTP s: "
\* and the body, and every outcome of another hotkey is a success.
C18_RejectedEveryCycle ==
    (pc = "returned" /\ C >= 1 /\ R >= 1) =>
        \A x \in 1..N :
            OnlyRejects(x) =>
                LET X == hotkeys[x].ss58_address
                    ofX == {k \in DOMAIN all_results : all_results[k].hotkey = X}
                IN  /\ Cardinality(ofX) = R
                    /\ \A r \in 1..R :
                          Cardinality({k \in ofX : all_results[k].repeat_num = r}) = 1
                    /\ \A k \in ofX :
                          /\ ~all_results[k].success
                          /\ all_results[k].error
                                = RejectionText(net[<<all_results[k].repeat_num, x>>].got)
                    /\ \A k \in DOMAIN all_results \ ofX : all_results[k].success

\* Two repeats of three hotkeys, the second answered 500 both times.
C18_Witness ==
    /\ pc = "returned" /\ R = 2 /\ N = 3 /\ OnlyRejects(2)
    /\ all_results[2].error = "HTTP 500: boom" /\ all_results[5].error = "HTTP 500: boom"
    /\ all_results[1].success /\ all_results[6].success

\* The batches of the current repeat whose results have been processed, the
\* decision on the batch pause after them taken.
ProcessedBatches ==
    IF pc \in {"gather", "crashed"} THEN {g \in DOMAIN groups : g < Len(groups)}
    ELSE IF pc \in {"batch_sleep", "batch_loop", "repeat_sleep"} THEN DOMAIN groups
    ELSE {}

\* The repeats whose batch loop has ended, the decision on the repeat pause taken.
EndedRepeats ==
    {r \in 1..MaxRepeat : r < repeat_num \/ (r = repeat_num /\ pc = "repeat_sleep")}

\* Every submission of positions a..b of the current repeat has completed.
Completed_in(a, b) ==
    \A pos \in a..b : net[<<repeat_num, pos>>].calls = 1 /\ <<repeat_num, pos>> \notin running

\* C19: in a repeat, a batch pause follows batch g exactly when
\* delay_between_batches > 0 and g is not the last batch of the repeat; while
\* it runs every submission of the batches so far has completed, none is in
\* flight and none of a later batch has been started; no batch pause follows
\* the last batch.
C19_BatchPause ==
    C >= 1 =>
        /\ \A g \in ProcessedBatches :
              Wait("batch", repeat_num, g) \in waits
                  <=> (args.delay > 0 /\ g < Ceil(N, C))
        /\ \A r \in EndedRepeats, g \in 1..Ceil(N, C) :
              Wait("batch", r, g) \in waits
                  <=> (args.delay > 0 /\ g < Ceil(N, C))
        /\ \A w \in waits :
              w.kind = "batch" => args.delay > 0 /\ w.batch_num < Ceil(N, C)
        /\ pc = "batch_sleep" =>
              /\ Wait("batch", repeat_num, Len(groups)) \in waits
              /\ running = {}
              /\ \A k \in DOMAIN tasks : tasks[k].st = "done"
              /\ Completed_in(1, groups[Len(groups)][2])
              /\ \A pos \in (groups[Len(groups)][2] + 1)..N : net[<<repeat_num, pos>>].calls = 0

\* The pause after the first of two batches runs, both submissions of the
\* batch completed.
C19_Witness ==
    /\ pc = "batch_sleep" /\ N = 3 /\ C = 2 /\ args.delay > 0
    /\ net[<<repeat_num, 1>>].got # NoTransport /\ net[<<repeat_num, 2>>].got # NoTransport

\* The last batch of a repeat has been processed with a delay set, and the
\* loop has gone on without a pause.
C19_WitnessLast ==
    /\ pc = "batch_loop" /\ N = 3 /\ C = 2 /\ args.delay > 0 /\ Len(groups) = 2
    /\ Wait("batch", repeat_num, 2) \notin waits

\* C20: a repeat pause follows repeat r exactly when r < repeat and
\* delay_between_repeats > 0; while it runs all the batches of repeat r have
\* completed and no submission of repeat r + 1 has been started; no repeat
\* pause follows the last repeat.
C20_RepeatPause ==
    /\ \A r \in EndedRepeats :
          (\E w \in waits : w.kind = "repeat" /\ w.repeat_num = r)
              <=> (r < R /\ args.repeat_delay > 0)
    /\ \A w \in waits :
          w.kind = "repeat" => w.repeat_num < R /\ args.repeat_delay > 0
    /\ pc = "repeat_sleep" =>
          /\ running = {}
          /\ \A pos \in 1..N : net[<<repeat_num + 1, pos>>].calls = 0
          /\ C >= 1 => /\ Len(groups) = Ceil(N, C)
                       /\ Completed_in(1, N)
                       /\ Len(results) = N

\* The pause between the first and the second repeat runs.
C20_Witness ==
    /\ pc = "repeat_sleep" /\ repeat_num = 1 /\ R = 2 /\ N = 3 /\ C = 2
    /\ Len(all_results) = 3

\* C21: the message signed for a body is made of three fields, the digest of
\* that body, the timestamp and an empty field (digest "." timestamp "."), the
\* signature is made of that message, and the timestamp in the message is the
\* one the Epistula-Timestamp header carries.
C21_SignedMessage ==
    \A k \in DOMAIN envelopes :
        LET e == envelopes[k] IN
        /\ Len(e.headers.signed) = 3
        /\ e.headers.signed[1] = <<"sha256", e.body>>
        /\ e.headers.signed[2] = e.headers.timestamp
        /\ e.headers.signed[3] = ""
        /\ e.headers.signature = <<"sign", e.hotkey, e.headers.signed>>
        /\ e.headers.signed_by = e.hotkey

\* Two bodies have been signed at different times of the clock.
C21_Witness ==
    /\ Len(envelopes) >= 2
    /\ envelopes[1].body # envelopes[2].body
    /\ envelopes[1].headers.timestamp = 0 /\ envelopes[2].headers.timestamp = 2
    /\ envelopes[2].headers.signed = <<Digest(envelopes[2].body), 2, "">>

\* The dict a request is, whatever the order in which its keys were inserted.
AsDict(data) == {data[k] : k \in DOMAIN data}

\* The body does not depend on the insertion order, and its keys ascend.
Canonical ==
    /\ \A j, k \in DOMAIN bodies :
          AsDict(bodies[j].request) = AsDict(bodies[k].request)
              => bodies[j].body = bodies[k].body
    /\ \A k \in DOMAIN bodies :
          /\ Len(bodies[k].body) = Len(bodies[k].request)
          /\ \A a, b \in DOMAIN bodies[k].body :
                a < b => Rank(bodies[k].body[a].key) < Rank(bodies[k].body[b].key)

\* The member of body b written for the item it.
MemberOf(b, it) == b[CHOOSE a \in DOMAIN b : b[a].key = it.key]

\* C22 as stated: the body does not depend on the insertion order of the
\* keys, which are written in lexicographic order, and every value that is not
\* a string (competition_id, round_number) is written as a string.
C22_CanonicalAllStrings ==
    /\ Canonical
    /\ \A k \in DOMAIN bodies : \A j \in DOMAIN bodies[k].request :
          MemberOf(bodies[k].body, bodies[k].request[j]).value.quoted

\* C22 amended: the body does not depend on the insertion order of the keys,
\* which are written in lexicographic order; an integer value (competition_id,
\* round_number) is written as a JSON number, a string value as a JSON string.
C22_CanonicalJson ==
    /\ Canonical
    /\ \A k \in DOMAIN bodies : \A j \in DOMAIN bodies[k].request :
          LET it == bodies[k].request[j]
              m == MemberOf(bodies[k].body, it)
          IN  /\ m.value.text = it.text
              /\ m.value.quoted <=> it.kind = "str"

\* One dict has been serialized from two insertion orders, the code "1" as a
\* string and the competition id 1 as a number.
C22_Witness ==
    /\ Len(bodies) = 2
    /\ bodies[1].request # bodies[2].request
    /\ AsDict(bodies[1].request) = AsDict(bodies[2].request)
    /\ bodies[1].body = << [key |-> "competition_id", value |-> [quoted |-> FALSE, text |-> "1"]],
                           [key |-> "raw_code", value |-> [quoted |-> TRUE, text |-> "1"]],
                           [key |-> "round_number", value |-> [quoted |-> FALSE, text |-> "-1"]] >>

\* The positions of the hotkeys whose key file has no privateKey.
NoKeyPositions == {pos \in DOMAIN hotkeys : files[hotkeys[pos].hotkey_path] = "nokey"}

\* C23: a hotkey that was discovered and whose key file has no privateKey gets
\* no POST in any repeat; its submission ends with success = false and the text
\* of the key error; every repeat that ended holds that outcome at its place;
\* and a hotkey of the same batch whose key file is complete gets its one POST.
C23_KeyFailureLocal ==
    /\ \A pos \in NoKeyPositions :
          /\ \A rn \in 1..MaxRepeat : net[<<rn, pos>>].posts = 0
          /\ \A k \in DOMAIN tasks :
                (tasks[k].pos = pos /\ tasks[k].st # "created") =>
                    /\ tasks[k].st = "done" /\ tasks[k].raised = ""
                    /\ tasks[k].out = KeyFailure(hotkeys[pos])
          /\ \A k \in DOMAIN AllOutcomes :
                AllOutcomes[k].hotkey = hotkeys[pos].ss58_address =>
                    /\ ~AllOutcomes[k].success
                    /\ AllOutcomes[k].error = NoKeyText
                    /\ AllOutcomes[k].response = "None"
          /\ \A rn \in 1..MaxRepeat :
                rn * N <= Len(all_results) =>
                    /\ all_results[(rn - 1) * N + pos].hotkey = hotkeys[pos].ss58_address
                    /\ all_results[(rn - 1) * N + pos].repeat_num = rn
    /\ NoKeyPositions # {} =>
          \A k \in DOMAIN tasks :
              (tasks[k].st # "created"
                   /\ files[hotkeys[tasks[k].pos].hotkey_path] \in {"valid", "rejected"}) =>
                  net[<<tasks[k].born, tasks[k].pos>>].posts = 1

\* Two repeats have ended over a hotkey without privateKey and a valid one,
\* submitted in one batch; the valid one succeeded both times.
C23_Witness ==
    /\ pc = "returned" /\ R = 2 /\ C = 2 /\ N = 2
    /\ Cardinality(NoKeyPositions) = 1
    /\ Len(all_results) = 4
    /\ \E pos \in DOMAIN hotkeys \ NoKeyPositions :
          all_results[pos].success /\ all_results[N + pos].success

\* What the files are, told from their kind alone.
HasMarker(kind) == kind \in {"pub", "pub_unparsable"}
Unparsable(kind) == kind \in {"unparsable", "pub_unparsable"}
ObjectWithAddress(kind) == kind \in {"valid", "rejected", "nokey", "numaddr", "pub"}

\* The files discovery answers with, and how often file k was warned about.
Discovered == {hotkeys[j].hotkey_path : j \in DOMAIN hotkeys}
WarningsFor(k) == Cardinality({j \in DOMAIN warnings : warnings[j] = k})

\* Discovery returns one identity, with an address that is not empty, for each
\* file that parses as a JSON object with a non-empty ss58Address and has no
\* marker in its name, in scan order, and for no other file.
OnePerGoodFile ==
    /\ Discovered = {k \in DOMAIN files : ObjectWithAddress(files[k]) /\ ~HasMarker(files[k])}
    /\ \A a, b \in DOMAIN hotkeys : a < b => hotkeys[a].hotkey_path < hotkeys[b].hotkey_path
    /\ \A j \in DOMAIN hotkeys : hotkeys[j].ss58_address # 0

\* C24 as stated: discovery ends without failing; it returns one identity per
\* good file; every unparsable file is skipped with exactly one warning.
C24_OneWarningPerUnparsable ==
    pc = "discovered" =>
        /\ OnePerGoodFile
        /\ \A k \in DOMAIN files :
              Unparsable(files[k]) => k \notin Discovered /\ WarningsFor(k) = 1

\* C24 amended: discovery ends without failing; it returns one identity per
\* good file; every unparsable file is skipped, with exactly one warning when
\* its name has no marker and with none when it has (the file is not opened).
C24_OneWarningPerOpened ==
    pc = "discovered" =>
        /\ OnePerGoodFile
        /\ \A k \in DOMAIN files :
              Unparsable(files[k]) =>
                  /\ k \notin Discovered
                  /\ WarningsFor(k) = IF HasMarker(files[k]) THEN 0 ELSE 1

\* Five files, the second unparsable and the others good: four identities and
\* one warning.
C24_Witness ==
    /\ pc = "discovered"
    /\ files = <<"valid", "unparsable", "valid", "nokey", "valid">>
    /\ Len(hotkeys) = 4
    /\ warnings = <<2>>

\* The number of the first execution of call c that ends with exit code 0
\* (0 when there is none).
FirstSuccess(c) ==
    IF \E k \in DOMAIN c.outs : c.outs[k] = "ok"
    THEN CHOOSE k \in DOMAIN c.outs :
             c.outs[k] = "ok" /\ \A j \in 1..(k - 1) : c.outs[j] # "ok"
    ELSE 0

\* What C25 says of one call c of run_command.
RetryContract(c) ==
    /\ c.executed <= bot.max_retries
    /\ (bot.stop_on_success /\ FirstSuccess(c) # 0) =>
          /\ c.executed = FirstSuccess(c)
          /\ c.raised = ""
          /\ c.ret = Triple(AttemptRecord(c.command, FirstSuccess(c), "ok"))
    /\ FirstSuccess(c) = 0 =>
          /\ c.raised = ""
          /\ c.executed >= 1
          /\ c.ret = Triple(AttemptRecord(c.command, c.executed, c.outs[c.executed]))
          /\ c.outs[c.executed] = "exc" =>
                c.ret = [exit_code |-> -1, stdout |-> "", stderr |-> ExcText(c.command)]
    /\ \A k \in DOMAIN c.sleeps :
          c.sleeps[k] < c.executed /\ c.outs[c.sleeps[k]] # "ok"

\* C25: every call of run_command executes the command at most max_retries
\* times; with stop_on_success it stops at the first execution that ends with
\* exit code 0 and returns its tuple; when no execution succeeds it returns the
\* tuple of the last one, (-1, "", text) when that one raised; it sleeps only
\* after a failed execution that is not the last one.
C25_RetryContract == \A n \in DOMAIN calls : RetryContract(calls[n])

\* The elements call c appended to self.attempts.
LoggedBy(c) ==
    {bot.attempts[k] : k \in (c.logged_before + 1)..(c.logged_before + c.executed)}

\* C30: no call of run_command raises, and the tuple it returns is that of an
\* attempt the same call executed for its own command.
C30_ReturnsOwnAttempt ==
    \A n \in DOMAIN calls :
        /\ calls[n].raised = ""
        /\ \E rec \in LoggedBy(calls[n]) :
              rec.command = calls[n].command /\ Triple(rec) = calls[n].ret

\* C26: when the rotation has run to its summary, the process exits with 1 if
\* a hotkey failed to link or no command succeeded, and with 0 otherwise.
C26_ExitStatus ==
    (rot.pc = "exited" /\ Len(rot.results) = Len(rot.hotkeys) /\ rot.hotkeys # <<>>) =>
        LET any_unlinked == \E k \in DOMAIN rot.results : ~rot.results[k].linked
            all_failed == \A k \in DOMAIN rot.results :
                              \A j \in DOMAIN rot.results[k].command_results :
                                  ~rot.results[k].command_results[j].success
        IN  rot.exit_status = IF any_unlinked \/ all_failed THEN 1 ELSE 0

\* C27: every dict submit_single returns is well formed: with success = true
\* the error is None and the response is the parsed body; with success = false
\* the error is a message that is not empty and the response is None.
C27_WellFormedOutcome ==
    \A k \in DOMAIN tasks :
        (tasks[k].st = "done" /\ tasks[k].raised = "") =>
            LET r == tasks[k].out IN
            /\ r.success => r.error = "None" /\ r.response # "None"
            /\ ~r.success => r.error \notin {"None", ""} /\ r.response = "None"

\* The place of slot in the order the POSTs came back in (0 when it has not).
FinishedAt(slot) ==
    IF \E k \in DOMAIN finished.seq : finished.seq[k] = slot
    THEN CHOOSE k \in DOMAIN finished.seq : finished.seq[k] = slot
    ELSE 0

\* C28: in whatever order the POSTs of a batch come back, the outcomes of a
\* repeat are in the order of the hotkey list, and the returned list holds the
\* repeats one after the other, each in the order of the hotkey list.
C28_ListOrder ==
    /\ \A k \in DOMAIN results : results[k].hotkey = hotkeys[k].ss58_address
    /\ \A k \in DOMAIN all_results :
          /\ all_results[k].hotkey = hotkeys[((k - 1) % N) + 1].ss58_address
          /\ all_results[k].repeat_num = ((k - 1) \div N) + 1

\* Two repeats have been returned; in the first the POST of the second hotkey
\* came back before that of the first, in the second repeat after it.
C28_Witness ==
    /\ pc = "returned" /\ R = 2 /\ C = 2 /\ N >= 2
    /\ Len(all_results) = 2 * N
    /\ FinishedAt(<<1, 2>>) # 0 /\ FinishedAt(<<1, 2>>) < FinishedAt(<<1, 1>>)
    /\ FinishedAt(<<2, 1>>) # 0 /\ FinishedAt(<<2, 1>>) < FinishedAt(<<2, 2>>)

\* C29: when main returns 0 outside dry-run mode, the returned list holds a
\* successful outcome for every hotkey that was discovered, whatever the
\* values of --repeat and --max-workers.
C29_ZeroMeansSubmitted ==
    (pc = "exited" /\ exit_code = 0 /\ ~args.dry_run) =>
        \A pos \in DOMAIN hotkeys :
            \E k \in DOMAIN all_results :
                all_results[k].hotkey = hotkeys[pos].ss58_address /\ all_results[k].success

====
